---- MODULE Spec2Model ----
(***************************************************************************)
(* Model of the token lifecycle coordinator of src/backends.go: the Redis  *)
(* backend that keeps one record per token (TOKENS:<token>, with a TTL)    *)
(* and one sorted set per user (USER_TOKENS:<userId>, scored by expiry in  *)
(* whole seconds).  Every Redis command is one atomic step of a process;   *)
(* a process runs one backend operation at a time.                         *)
(***************************************************************************)
EXTENDS Integers, Sequences, FiniteSets, TLC

(* ---------------------------------------------------------------- bounds *)
Users == {"u1", "u2"}
Tokens == {"x", "y"}
Vals == {"p1", "p2"}
Procs == {1, 2, 3}

\* The clock counts ticks; TicksPerSec ticks make one second of time.Unix().
TicksPerSec == 2
MaxTime == 3
MaxTTL == 2
TTLs == 1..MaxTTL

GenErr == "GENERR"
\* A generator is the sequence of what its successive invocations may yield
\* (the last entry repeats): any candidate or an error each time, or the
\* generator of the two-caller scenario, "x" and then "y".
AnyGen == <<Tokens \cup {GenErr}>>
XThenY == <<{"x"}, {"y"}>>

VARIABLES
    now,    \* the clock, in ticks
    store,  \* TokenStore: token -> record (TOKENS:<token>)
    idx,    \* UserIndex: user -> token -> score in seconds, -1 when no member
    iss,    \* history: user -> token -> the latest issuance of it to the user
    prev,   \* history: the operation completed before the current one
    pc,     \* process -> its position
    op,     \* process -> the operation it runs and its arguments
    loc,    \* process -> the locals of the running operation
    res     \* process -> what the completed operation returned

vars == <<now, store, idx, iss, prev, pc, op, loc, res>>

(* ------------------------------------------------------------ data model *)
NoExpire == -1
NoRec == [live |-> FALSE, val |-> "", exp |-> 0, by |-> 0, ret |-> FALSE]
NoIss == [user |-> "", val |-> "", until |-> 0]
NoIdx == [t \in Tokens |-> -1]
NoOp == [kind |-> "none", user |-> "", tok |-> "", toks |-> {}, was |-> NoIdx]
Loc0 == [cont |-> "", todo |-> <<>>, del |-> {}, k |-> 1, tok |-> "",
         val |-> "", score |-> 0, until |-> 0, items |-> <<>>, out |-> <<>>, cerr |-> "nil",
         pre |-> "", at |-> 0, enum |-> <<>>]
Res0 == [err |-> "nil", tok |-> "", val |-> "", list |-> <<>>, made |-> "",
         cerr |-> "nil", perr |-> FALSE, pre |-> "", at |-> 0, enum |-> <<>>]
NoPrev == [kind |-> "none", user |-> "", tok |-> "", toks |-> {}, err |-> "nil",
           pre |-> "", at |-> 0]

\* time.Time.Unix(): whole seconds.
Unix(t) == t \div TicksPerSec

TokRank(t) == IF t = "x" THEN 1 ELSE 2

(* ------------------------------------------------------- Redis primitives *)
\* SETNX key value / SET key value PX ttl NX: the record a creation writes.
\* go-redis sends a plain SETNX (no expiry) for a zero expiration.
NewRec(v, ttl, by) ==
    [live |-> TRUE, val |-> v,
     exp |-> IF ttl = 0 THEN NoExpire ELSE now + ttl,
     by |-> by, ret |-> FALSE]

\* EXISTS key (isTokenExist: count > 0).
isTokenExist(st, t) == st[t].live

\* Mutant: a plain SET, which creates whether or not the key exists.
saveTokenOverwrite(st, t) == TRUE

\* SetNX creates only when the key is absent (saveToken's result).
saveToken(st, t) == ~isTokenExist(st, t)

\* Mutant: redis.Nil is passed on as it is.
loadTokenRawNil(st, t) ==
    IF st[t].live THEN [err |-> "nil", val |-> st[t].val]
    ELSE [err |-> "Nil", val |-> ""]

\* Mutant: the error of GET is dropped, a missing record reads as "".
loadTokenUnchecked(st, t) == [err |-> "nil", val |-> st[t].val]

\* GET key (loadToken): redis.Nil becomes ErrTokenNotFound.
loadToken(st, t) ==
    IF st[t].live THEN [err |-> "nil", val |-> st[t].val]
    ELSE [err |-> "NotFound", val |-> ""]

\* UNLINK keys (deleteToken): unconditional; a missing key is no error.
deleteToken(st, ts) == [t \in Tokens |-> IF t \in ts THEN NoRec ELSE st[t]]

\* Mutant: a key that is not there is reported as an error.
deleteTokenErrIfMissing(st, ts) ==
    IF \E t \in ts : ~st[t].live THEN "NotFound" ELSE "nil"

\* The error deleteToken returns: none, whatever keys exist.
deleteTokenErr(st, ts) == "nil"

\* ZSCORE key member: is the token a member of the user's set.
IsMember(z, t) == z[t] >= 0

\* ZREMRANGEBYSCORE key 0 now: drops every member scored in [0, nowSec].
ZRemRangeByScore(z, nowSec) ==
    [t \in Tokens |-> IF z[t] >= 0 /\ z[t] <= nowSec THEN -1 ELSE z[t]]

\* ZREM key members...: drops the members named.
ZRem(z, ts) == [t \in Tokens |-> IF t \in ts THEN -1 ELSE z[t]]

\* ZREM with no member is a Redis arity error.
ZRemErr(ts) == IF ts = {} THEN "Arity" ELSE "nil"

\* ZRANGE key 0 -1: members by ascending score, then by name.
ZLess(z, a, b) == z[a] < z[b] \/ (z[a] = z[b] /\ TokRank(a) < TokRank(b))

RECURSIVE ZRangeOf(_, _)
ZRangeOf(z, S) ==
    IF S = {} THEN <<>>
    ELSE LET m == CHOOSE a \in S : \A b \in S \ {a} : ZLess(z, a, b)
         IN  <<m>> \o ZRangeOf(z, S \ {m})

ZRange(z) == ZRangeOf(z, {t \in Tokens : z[t] >= 0})

\* Mutant: the TTL is added twice.
ExpireTwice(lnow, ttl) == lnow + ttl + ttl

\* Line 134: expire := now.Add(expiresIn).
Expire(lnow, ttl) == lnow + ttl

\* The score saveUserToken gives the index entry: float64(expire.Unix()).
Score(expire) == Unix(expire)

\* What the generator may yield on its k-th invocation.
GenAt(g, k) == g[IF k > Len(g) THEN Len(g) ELSE k]

(* ------------------------------------------------------------------ Init *)
Init ==
    /\ now = 0
    /\ store = [t \in Tokens |-> NoRec]
    /\ idx = [u \in Users |-> NoIdx]
    /\ iss = [u \in Users |-> [t \in Tokens |-> NoIss]]
    /\ prev = NoPrev
    /\ pc = [p \in Procs |-> "idle"]
    /\ op = [p \in Procs |-> NoOp]
    /\ loc = [p \in Procs |-> Loc0]
    /\ res = [p \in Procs |-> Res0]

(* ------------------------------------------------------- process helpers *)
\* A configuration c names what a specification lets happen: c.F, the outcomes
\* of a backend call (TRUE: the call fails with a transport error or a
\* cancelled context, and changes nothing), c.midop, whether the clock may
\* advance while an operation runs, c.U, c.T, c.G, c.V and c.D, the users,
\* tokens, generator, payloads and TTLs callers pass, and c.own, c.iss and
\* c.prev, whether the history (who created a record, iss, prev) is kept.
Idle(p) == pc[p] \in {"idle", "done"}

Summary(p) ==
    [kind |-> op[p].kind, user |-> op[p].user, tok |-> op[p].tok,
     toks |-> op[p].toks, err |-> res[p].err, pre |-> res[p].pre,
     at |-> res[p].at]

ResOf(L) == [Res0 EXCEPT !.cerr = L.cerr, !.pre = L.pre, !.made = L.tok,
                         !.at = L.at, !.enum = L.enum]

\* The history keeps the operation a caller has just completed when the one
\* it starts next follows up on it: a listing after a failed lookup or after a
\* cleanup for the same user, a revoke repeated with the same arguments, a
\* cleanup repeated for the same user, a lookup of the token another user's
\* lookup has just missed.
Related(s, o) ==
    \/ /\ s.user = o.user
       /\ \/ o.kind = "list" /\ s.kind = "load" /\ s.err = "NotFound"
          \/ o.kind = "list" /\ s.kind = "cleanup"
          \/ o.kind = "delete" /\ s.kind = "delete" /\ s.toks = o.toks
          \/ o.kind = "cleanup" /\ s.kind = "cleanup"
    \/ /\ s.user # o.user
       /\ o.kind = "load" /\ s.kind = "load" /\ s.err = "NotFound"
       /\ s.tok = o.tok

\* The operation of p returns r.
Finish(p, r) ==
    /\ pc' = [pc EXCEPT ![p] = "done"]
    /\ res' = [res EXCEPT ![p] = r]
    /\ loc' = [loc EXCEPT ![p] = Loc0]
    /\ UNCHANGED op

\* The operation of p goes on at label l with locals L.
Goto(p, l, L) ==
    /\ pc' = [pc EXCEPT ![p] = l]
    /\ loc' = [loc EXCEPT ![p] = L]
    /\ UNCHANGED <<res, op>>

\* p starts operation o at label l; the cleanup pass, when it runs first,
\* continues at label k.  Where operations take no time, the history keeps
\* the time of the operation.
Begin(p, c, o, l, k, pr) ==
    /\ Idle(p)
    /\ op' = [op EXCEPT ![p] = o]
    /\ prev' = IF c.prev /\ pc[p] = "done" /\ Related(Summary(p), o)
               THEN Summary(p) ELSE NoPrev
    /\ res' = [res EXCEPT ![p] = Res0]
    /\ loc' = [loc EXCEPT ![p] = [Loc0 EXCEPT !.cont = k, !.pre = pr,
                                               !.at = IF c.midop THEN 0 ELSE now]]
    /\ pc' = [pc EXCEPT ![p] = l]
    /\ UNCHANGED <<now, store, idx>>

\* What loadUserToken finds when it starts: the token is not in the user's
\* index, or it is listed but its record is gone, or it is listed and live.
PreOf(u, t) ==
    IF idx[u][t] < 0 THEN "unindexed"
    ELSE IF ~store[t].live THEN "stale" ELSE "live"

StartSave(p, c) ==
    \E u \in c.U :
        /\ Begin(p, c, [NoOp EXCEPT !.kind = "save", !.user = u],
                 "c_sweep", "s_setnx", "")
        /\ UNCHANGED iss

StartLoad(p, c) ==
    \E u \in c.U, t \in c.T :
        /\ Begin(p, c, [NoOp EXCEPT !.kind = "load", !.user = u, !.tok = t],
                 "c_sweep", "l_zscore", IF c.prev THEN PreOf(u, t) ELSE "")
        /\ UNCHANGED iss

StartList(p, c) ==
    \E u \in c.U :
        /\ Begin(p, c, [NoOp EXCEPT !.kind = "list", !.user = u],
                 "c_sweep", "t_range", "")
        /\ UNCHANGED iss

StartCleanup(p, c) ==
    \E u \in c.U :
        /\ Begin(p, c, [NoOp EXCEPT !.kind = "cleanup", !.user = u,
                                     !.was = IF c.prev THEN idx[u] ELSE NoIdx],
                 "c_sweep", "", "")
        /\ UNCHANGED iss

StartDelete(p, c) ==
    \E u \in c.U, ts \in (SUBSET c.T) \ {{}} :
        /\ Begin(p, c, [NoOp EXCEPT !.kind = "delete", !.user = u, !.toks = ts],
                 "d_zrem", "", "")
        /\ iss' = [v \in Users |-> [t \in Tokens |->
                    IF c.iss /\ t \in ts THEN NoIss ELSE iss[v][t]]]

(* ------------------------------------------------------ cleanupUserToken *)
\* Mutant: the error of the implicit pass is returned too.
CleanupOutcomePropagated(kind, e) == e

\* The error of a cleanup pass that the calling operation acts on: its own
\* return value when invoked directly, dropped (_ =) when run implicitly.
CleanupOutcome(kind, e) == IF kind = "cleanup" THEN e ELSE "nil"

\* The cleanup pass of p returns e.
CleanupExit(p, L, e) ==
    LET out == CleanupOutcome(op[p].kind, e)
        L2 == [L EXCEPT !.cerr = IF @ = "nil" THEN e ELSE @,
                        !.todo = <<>>, !.del = {}]
    IN  IF op[p].kind = "cleanup" \/ out # "nil"
        THEN Finish(p, [ResOf(L2) EXCEPT !.err = out])
        ELSE Goto(p, L.cont, L2)

\* Mutant: the slow path finds every record.
StaleNever(st, t) == FALSE

\* An entry the slow path removes: its store record does not exist.
Stale(st, t) == ~isTokenExist(st, t)

\* Line 106-110: now := time.Now().Unix(); ZRemRangeByScore(key, "0", now).
CleanSweep(p, c) ==
    /\ pc[p] = "c_sweep"
    /\ \E f \in c.F :
        IF f THEN CleanupExit(p, loc[p], "E_ZRemRangeByScore") /\ UNCHANGED idx
        ELSE /\ idx' = [idx EXCEPT ![op[p].user] = ZRemRangeByScore(@, Unix(now))]
             /\ Goto(p, "c_range", loc[p])
    /\ UNCHANGED <<now, store, iss, prev>>

\* Line 111-114: userTokens := ZRange(key, 0, -1).
CleanRange(p, c) ==
    /\ pc[p] = "c_range"
    /\ \E f \in c.F :
        IF f THEN CleanupExit(p, loc[p], "E_ZRange")
        ELSE LET ts == ZRange(idx[op[p].user])
             IN  Goto(p, IF ts = <<>> THEN "c_zrem" ELSE "c_exist",
                      [loc[p] EXCEPT !.todo = ts, !.del = {}])
    /\ UNCHANGED <<now, store, idx, iss, prev>>

\* Line 117-125: one turn of the loop: isTokenExist(token).
CleanExist(p, c) ==
    /\ pc[p] = "c_exist"
    /\ \E f \in c.F :
        IF f THEN CleanupExit(p, loc[p], "E_Exists")
        ELSE LET t == Head(loc[p].todo)
                 rest == Tail(loc[p].todo)
             IN  Goto(p, IF rest = <<>> THEN "c_zrem" ELSE "c_exist",
                      [loc[p] EXCEPT !.todo = rest,
                                     !.del = IF Stale(store, t) THEN @ \cup {t} ELSE @])
    /\ UNCHANGED <<now, store, idx, iss, prev>>

\* Line 126: return ZRem(key, tokensForDelete...).Err().
CleanZRem(p, c) ==
    /\ pc[p] = "c_zrem"
    /\ \E f \in c.F :
        LET e == IF f THEN "E_ZRem" ELSE ZRemErr(loc[p].del)
        IN  /\ idx' = IF e = "nil"
                      THEN [idx EXCEPT ![op[p].user] = ZRem(@, loc[p].del)]
                      ELSE idx
            /\ CleanupExit(p, loc[p], e)
    /\ UNCHANGED <<now, store, iss, prev>>

(* --------------------------------------------------------- saveUserToken *)
\* Mutant: a collision ends the call with an error.
CollideGiveUp(p, L, c) == Finish(p, [ResOf(L) EXCEPT !.err = "Collision"])

\* Line 145, 157-158: created = false falls out of the if and goes round the
\* for loop again, to the next invocation of the generator.
Collide(p, L, c) ==
    Goto(p, "s_setnx", [L EXCEPT !.k = IF @ < Len(c.G) THEN @ + 1 ELSE @])

\* Line 132-157, up to the create: now := time.Now(); token := genToken();
\* saveToken(token, value, expire.Sub(now)).  A collision (created = false)
\* goes round the loop again.  The payload and the TTL the caller passed
\* are first used here, so they are drawn here.
SaveSetNX(p, c) ==
    /\ pc[p] = "s_setnx"
    /\ LET L == loc[p]
       IN  \E cand \in GenAt(c.G, L.k), v \in c.V, d \in c.D, f \in c.F :
            IF cand = GenErr
            THEN Finish(p, [ResOf(L) EXCEPT !.err = "Gen"]) /\ UNCHANGED store
            ELSE IF f
            THEN /\ Finish(p, [ResOf(L) EXCEPT !.err = "E_SetNX", !.perr = TRUE])
                 /\ UNCHANGED store
            ELSE IF saveToken(store, cand)
            THEN /\ store' = [store EXCEPT ![cand] =
                                  NewRec(v, Expire(now, d) - now, IF c.own THEN p ELSE 0)]
                 /\ Goto(p, "s_zadd",
                         [L EXCEPT !.tok = cand, !.val = v,
                                   !.score = Score(Expire(now, d)),
                                   !.until = now + d])
            ELSE /\ UNCHANGED store
                 /\ Collide(p, L, c)
    /\ UNCHANGED <<now, idx, iss, prev>>

\* Line 146-156: ZAdd(key, {Member: token, Score: expire.Unix()}); the call
\* returns the token, or goes to the rollback when the insert failed.
SaveZAdd(p, c) ==
    /\ pc[p] = "s_zadd"
    /\ LET L == loc[p]
           t == L.tok
       IN  \E f \in c.F :
            IF f
            THEN Goto(p, "s_rollback", L) /\ UNCHANGED <<idx, store, iss>>
            ELSE /\ idx' = [idx EXCEPT ![op[p].user][t] = L.score]
                 /\ store' = IF c.own /\ store[t].live /\ store[t].by = p
                             THEN [store EXCEPT ![t].ret = TRUE] ELSE store
                 /\ iss' = IF c.iss
                           THEN [iss EXCEPT ![op[p].user][t] =
                                    [user |-> op[p].user, val |-> L.val,
                                     until |-> L.until]]
                           ELSE iss
                 /\ Finish(p, [ResOf(L) EXCEPT !.tok = t])
    /\ UNCHANGED <<now, prev>>

\* Line 152-155: _ = deleteToken(ctx, token); return "", err.
SaveRollback(p, c) ==
    /\ pc[p] = "s_rollback"
    /\ \E f \in c.F :
        /\ store' = IF f THEN store ELSE deleteToken(store, {loc[p].tok})
        /\ Finish(p, [ResOf(loc[p]) EXCEPT !.err = "E_ZAdd", !.perr = TRUE])
    /\ UNCHANGED <<now, idx, iss, prev>>

(* --------------------------------------------------------- loadUserToken *)
\* The token loadUserToken resolves: its argument, or the member the list
\* loop is at.
CurTok(p) == IF op[p].kind = "list" THEN Head(loc[p].items) ELSE op[p].tok

\* Mutant: the loop of loadUserTokenList returns the error of the member that
\* failed instead of going on.
LoadExitAbort(p, L, e, v, pf) ==
    LET t == CurTok(p)
    IN  IF op[p].kind = "load" \/ e # "nil"
        THEN Finish(p, [ResOf(L) EXCEPT !.err = e, !.val = v, !.perr = pf,
                                        !.list = L.out,
                                        !.tok = IF e = "nil" /\ op[p].kind = "load"
                                                THEN t ELSE ""])
        ELSE LET out2 == Append(L.out, [tok |-> t, val |-> v])
                 rest == Tail(L.items)
             IN  IF rest = <<>>
                 THEN Finish(p, [ResOf(L) EXCEPT !.list = out2])
                 ELSE Goto(p, "c_sweep", [L EXCEPT !.items = rest, !.out = out2])

\* loadUserToken returns (e, v): to the caller, or to the loop of
\* loadUserTokenList (line 194-200), which skips a member that failed.
LoadExit(p, L, e, v, pf) ==
    LET t == CurTok(p)
    IN  IF op[p].kind = "load"
        THEN Finish(p, [ResOf(L) EXCEPT !.err = e, !.val = v, !.perr = pf,
                                        !.tok = IF e = "nil" THEN t ELSE ""])
        ELSE LET out2 == IF e = "nil"
                         THEN Append(L.out, [tok |-> t, val |-> v]) ELSE L.out
                 rest == Tail(L.items)
             IN  IF rest = <<>>
                 THEN Finish(p, [ResOf(L) EXCEPT !.list = out2])
                 ELSE Goto(p, "c_sweep", [L EXCEPT !.items = rest, !.out = out2])

\* Line 166-173: ZScore(key, tokenString).
LoadZScore(p, c) ==
    /\ pc[p] = "l_zscore"
    /\ \E f \in c.F :
        IF f THEN LoadExit(p, loc[p], "E_ZScore", "", TRUE)
        ELSE Goto(p, IF IsMember(idx[op[p].user], CurTok(p)) THEN "l_get" ELSE "l_heal",
                  loc[p])
    /\ UNCHANGED <<now, store, idx, iss, prev>>

\* Line 168-170: not a member: _ = deleteToken(tokenString); ErrTokenNotFound.
LoadHeal(p, c) ==
    /\ pc[p] = "l_heal"
    /\ \E f \in c.F :
        /\ store' = IF f THEN store ELSE deleteToken(store, {CurTok(p)})
        /\ LoadExit(p, loc[p], "NotFound", "", FALSE)
    /\ UNCHANGED <<now, idx, iss, prev>>

\* Line 175-182: data := loadToken(tokenString).
LoadGet(p, c) ==
    /\ pc[p] = "l_get"
    /\ \E f \in c.F :
        LET r == IF f THEN [err |-> "E_Get", val |-> ""]
                 ELSE loadToken(store, CurTok(p))
        IN  LoadExit(p, loc[p], r.err, r.val, f)
    /\ UNCHANGED <<now, store, idx, iss, prev>>

(* ----------------------------------------------------- loadUserTokenList *)
\* Line 189-193: tokenStringList := ZRange(key, 0, -1).
ListRange(p, c) ==
    /\ pc[p] = "t_range"
    /\ \E f \in c.F :
        IF f
        THEN Finish(p, [ResOf(loc[p]) EXCEPT !.err = "E_ZRange", !.perr = TRUE])
        ELSE LET ts == ZRange(idx[op[p].user])
             IN  IF ts = <<>> THEN Finish(p, ResOf(loc[p]))
                 ELSE Goto(p, "c_sweep",
                           [loc[p] EXCEPT !.items = ts, !.out = <<>>,
                                          !.enum = ts, !.cont = "l_zscore"])
    /\ UNCHANGED <<now, store, idx, iss, prev>>

(* ------------------------------------------------------- deleteUserToken *)
\* Revoke: the tokens leave the user's index ...
DeleteZRem(p, c) ==
    /\ pc[p] = "d_zrem"
    /\ \E f \in c.F :
        IF f
        THEN /\ Finish(p, [ResOf(loc[p]) EXCEPT !.err = "E_ZRem", !.perr = TRUE])
             /\ UNCHANGED idx
        ELSE /\ idx' = [idx EXCEPT ![op[p].user] = ZRem(@, op[p].toks)]
             /\ Goto(p, "d_unlink", loc[p])
    /\ UNCHANGED <<now, store, iss, prev>>

\* ... and TokenStore (deleteToken).
DeleteUnlink(p, c) ==
    /\ pc[p] = "d_unlink"
    /\ \E f \in c.F :
        LET e == IF f THEN "E_Unlink" ELSE deleteTokenErr(store, op[p].toks)
        IN  /\ store' = IF e = "nil" THEN deleteToken(store, op[p].toks) ELSE store
            /\ Finish(p, [ResOf(loc[p]) EXCEPT !.err = e, !.perr = f])
    /\ UNCHANGED <<now, idx, iss, prev>>

(* ------------------------------------------------------------- the clock *)
\* A record whose TTL has run out is gone (Redis expires the key).
Expired(r, t) == r.live /\ r.exp # NoExpire /\ r.exp <= t

Tick(c) ==
    /\ now < MaxTime
    /\ c.midop \/ \A p \in Procs : Idle(p)
    /\ now' = now + 1
    /\ store' = [t \in Tokens |-> IF Expired(store[t], now + 1) THEN NoRec ELSE store[t]]
    /\ UNCHANGED <<idx, iss, prev, pc, op, loc, res>>

(* -------------------------------------------------------- specifications *)
CleanupSteps(p, c) ==
    \/ CleanSweep(p, c) \/ CleanRange(p, c) \/ CleanExist(p, c) \/ CleanZRem(p, c)

LoadSteps(p, c) == LoadZScore(p, c) \/ LoadHeal(p, c) \/ LoadGet(p, c)

\* Every operation, with backend calls that succeed (the rollback of
\* saveUserToken then never runs).
Healthy(p, c) ==
    \/ StartSave(p, c) \/ StartLoad(p, c) \/ StartList(p, c)
    \/ StartCleanup(p, c) \/ StartDelete(p, c)
    \/ CleanupSteps(p, c)
    \/ SaveSetNX(p, c) \/ SaveZAdd(p, c)
    \/ LoadSteps(p, c)
    \/ ListRange(p, c)
    \/ DeleteZRem(p, c) \/ DeleteUnlink(p, c)

\* Two callers at once, the clock free to advance between any two backend
\* calls.  loadUserTokenList and deleteUserToken are left out: the calls they
\* make on the store and the index are those of cleanupUserToken and
\* loadUserToken.
Concurrent == [F |-> {FALSE}, prev |-> FALSE, iss |-> FALSE, own |-> TRUE,
               midop |-> TRUE, U |-> Users, T |-> {"x"}, G |-> <<{"x"}>>,
               V |-> {"p1"}, D |-> TTLs]
Next ==
    \/ Tick(Concurrent)
    \/ \E p \in {1, 2} :
        \/ StartSave(p, Concurrent) \/ StartLoad(p, Concurrent)
        \/ StartCleanup(p, Concurrent)
        \/ CleanupSteps(p, Concurrent)
        \/ SaveSetNX(p, Concurrent) \/ SaveZAdd(p, Concurrent)
        \/ LoadSteps(p, Concurrent)
Spec == Init /\ [][Next]_vars

\* One caller, one operation after the other.
Serial == [F |-> {FALSE}, prev |-> TRUE, iss |-> FALSE, own |-> FALSE,
           midop |-> FALSE, U |-> Users, T |-> Tokens, G |-> AnyGen,
           V |-> {"p1"}, D |-> TTLs]
NextSeq == Tick(Serial) \/ Healthy(1, Serial)
SpecSeq == Init /\ [][NextSeq]_vars

\* One caller, with the history of issuances.
Issuing == [F |-> {FALSE}, prev |-> FALSE, iss |-> TRUE, own |-> FALSE,
            midop |-> FALSE, U |-> Users, T |-> {"x"}, G |-> <<{"x", GenErr}>>,
            V |-> Vals, D |-> TTLs]
NextIss == Tick(Issuing) \/ Healthy(1, Issuing)
SpecIss == Init /\ [][NextIss]_vars

\* One caller, one user, backend calls that may fail.
Failing == [F |-> BOOLEAN, prev |-> TRUE, iss |-> FALSE, own |-> FALSE,
            midop |-> FALSE, U |-> {"u1"}, T |-> Tokens, G |-> AnyGen,
            V |-> {"p1"}, D |-> TTLs]
NextFail == Tick(Failing) \/ Healthy(1, Failing) \/ SaveRollback(1, Failing)
SpecFail == Init /\ [][NextFail]_vars

\* Two callers that issue tokens and run cleanup passes, nothing else.
NextClean ==
    \/ Tick(Concurrent)
    \/ \E p \in {1, 2} :
        \/ StartSave(p, Concurrent) \/ StartCleanup(p, Concurrent)
        \/ CleanupSteps(p, Concurrent)
        \/ SaveSetNX(p, Concurrent) \/ SaveZAdd(p, Concurrent)
SpecClean == Init /\ [][NextClean]_vars

\* One caller that issues tokens with a generator that never fails, the
\* clock free to advance while the retry loop runs.
Retrying == [F |-> {FALSE}, prev |-> FALSE, iss |-> FALSE, own |-> FALSE,
             midop |-> TRUE, U |-> Users, T |-> Tokens, G |-> <<Tokens>>,
             V |-> {"p1"}, D |-> TTLs]
NextRetry ==
    \/ Tick(Retrying)
    \/ StartSave(1, Retrying)
    \/ CleanupSteps(1, Retrying)
    \/ SaveSetNX(1, Retrying) \/ SaveZAdd(1, Retrying)
SpecRetry == Init /\ [][NextRetry]_vars

\* One caller acting for two users that share the token strings, with the
\* history of issuances and of the previous operation; no revoke.
Sharing == [F |-> {FALSE}, prev |-> TRUE, iss |-> TRUE, own |-> FALSE,
            midop |-> FALSE, U |-> Users, T |-> {"x"}, G |-> <<{"x"}>>,
            V |-> Vals, D |-> TTLs]
NextShare ==
    \/ Tick(Sharing)
    \/ StartSave(1, Sharing) \/ StartLoad(1, Sharing) \/ StartList(1, Sharing)
    \/ StartCleanup(1, Sharing)
    \/ CleanupSteps(1, Sharing)
    \/ SaveSetNX(1, Sharing) \/ SaveZAdd(1, Sharing)
    \/ LoadSteps(1, Sharing)
    \/ ListRange(1, Sharing)
SpecShare == Init /\ [][NextShare]_vars

\* The scenario of two callers issuing for one user at the same time, each
\* with its own generator of "x" and then "y", and a third caller listing
\* once both have returned.  The TTL outlasts the scenario by a second.
LongTTL == MaxTime + TicksPerSec
Scenario == [F |-> {FALSE}, prev |-> FALSE, iss |-> FALSE, own |-> FALSE,
             midop |-> TRUE, U |-> {"u1"}, T |-> Tokens, G |-> XThenY,
             V |-> {"p1"}, D |-> {LongTTL}]
BothSaved == pc[1] = "done" /\ pc[2] = "done"
NextTwo ==
    \/ Tick(Scenario)
    \/ \E p \in {1, 2} : pc[p] = "idle" /\ StartSave(p, Scenario)
    \/ BothSaved /\ pc[3] = "idle" /\ StartList(3, Scenario)
    \/ \E p \in Procs :
        \/ CleanupSteps(p, Scenario)
        \/ SaveSetNX(p, Scenario) \/ SaveZAdd(p, Scenario)
        \/ ListRange(p, Scenario)
        \/ LoadZScore(p, Scenario) \/ LoadGet(p, Scenario)
SpecTwo == Init /\ [][NextTwo]_vars

(* ------------------------------------------------------------------ C1 *)
\* A token whose record is in the store and whose issuing call has returned.
LiveReturned(t) == store[t].live /\ store[t].ret

\* C1: whenever a saveUserToken call returns a token (its ZAdd succeeds), no
\* call that returned the same token earlier still has its token live: the
\* returned token is unique among the live tokens at that moment.
C1_ReturnedTokenUnique ==
    [][\A p \in {1, 2} :
        (pc[p] = "s_zadd" /\ pc'[p] = "done" /\ res'[p].err = "nil")
            => ~LiveReturned(loc[p].tok)]_vars

(* ------------------------------------------------------------------ C2 *)
\* The users whose index holds an entry for token t.
Holders(t) == {u \in Users : idx[u][t] >= 0}

\* C2: a token that has a record in TokenStore is referenced by at most one
\* index entry, counted over the indexes of all users.
C2_AtMostOneIndexEntry ==
    \A t \in Tokens : store[t].live => Cardinality(Holders(t)) <= 1

(* ------------------------------------------------------------------ C3 *)
\* The tokens of the views a listing returned.
ListToks(l) == {l[i].tok : i \in 1..Len(l)}

\* C3: loadUserToken answers NotFound both for a token that is not in the
\* user's index and for one that is listed while its record is gone (unless
\* one of its own backend calls failed), and the listing the caller asks for
\* next does not contain that token.
C3_NotFoundUniform ==
    pc[1] = "done" =>
        /\ (op[1].kind = "load" /\ res[1].pre \in {"unindexed", "stale"}
             /\ ~res[1].perr) => res[1].err = "NotFound"
        /\ (op[1].kind = "list" /\ prev.kind = "load" /\ prev.err = "NotFound")
            => prev.tok \notin ListToks(res[1].list)

\* A listing that returns another token right after the lookup of a listed
\* token whose record was gone answered NotFound.
C3_Witness ==
    /\ pc[1] = "done" /\ op[1].kind = "list" /\ res[1].list # <<>>
    /\ prev.kind = "load" /\ prev.pre = "stale" /\ prev.err = "NotFound"

(* ------------------------------------------------------------------ C4 *)
\* C4: while the TTL of the latest issuance of a token to a user has not
\* elapsed (and the token was not revoked), loadUserToken for that user and
\* token returns the view with the payload that was saved.
C4_ResolvesUntilTTL ==
    (/\ pc[1] = "done" /\ op[1].kind = "load"
     /\ iss[op[1].user][op[1].tok].user = op[1].user
     /\ res[1].at < iss[op[1].user][op[1].tok].until)
        => /\ res[1].err = "nil"
           /\ res[1].tok = op[1].tok
           /\ res[1].val = iss[op[1].user][op[1].tok].val

(* ------------------------------------------------------------------ C5 *)
\* Token t was last issued to user u, and more than its TTL had elapsed at
\* time a.
Lapsed(u, t, a) == iss[u][t].user = u /\ a > iss[u][t].until

\* C5: once more than the TTL has elapsed since a token was issued to a
\* user, loadUserToken answers NotFound for it and loadUserTokenList does
\* not contain it.
C5_GoneAfterTTL ==
    pc[1] = "done" =>
        /\ (op[1].kind = "load" /\ Lapsed(op[1].user, op[1].tok, res[1].at))
            => res[1].err = "NotFound"
        /\ op[1].kind = "list"
            => \A t \in Tokens :
                Lapsed(op[1].user, t, res[1].at) => t \notin ListToks(res[1].list)

\* A lookup of a lapsed token has answered NotFound.
C5_Witness ==
    /\ pc[1] = "done" /\ op[1].kind = "load"
    /\ Lapsed(op[1].user, op[1].tok, res[1].at) /\ res[1].err = "NotFound"

(* ------------------------------------------------------------------ C6 *)
\* C6: every member a listing returns right after a cleanup for the same
\* user has, when the listing returns, a record in TokenStore.
C6_ListedAreResolvable ==
    (/\ pc[1] = "done" /\ op[1].kind = "list" /\ prev.kind = "cleanup"
     /\ res[1].at = now)
        => \A t \in ListToks(res[1].list) : store[t].live

\* A listing after a cleanup has returned a member.
C6_Witness ==
    /\ pc[1] = "done" /\ op[1].kind = "list" /\ prev.kind = "cleanup"
    /\ res[1].at = now /\ res[1].list # <<>>

(* ------------------------------------------------------------------ C7 *)
\* C7: deleteUserToken returns no error and leaves its tokens neither in the
\* user's index nor in TokenStore, whether or not they were there; invoked a
\* second time with the same arguments it changes neither.
C7_DeleteIdempotent ==
    [][/\ (pc'[1] = "done" /\ op'[1].kind = "delete")
            => /\ res'[1].err = "nil"
               /\ \A t \in op'[1].toks :
                    ~store'[t].live /\ idx'[op'[1].user][t] < 0
       /\ (pc[1] \in {"d_zrem", "d_unlink"} /\ prev.kind = "delete")
            => (store' = store /\ idx' = idx)]_vars

\* The second of two revokes with the same arguments has returned.
C7_Witness ==
    /\ pc[1] = "done" /\ op[1].kind = "delete" /\ prev.kind = "delete"
    /\ res[1].err = "nil"

(* ------------------------------------------------------------------ C8 *)
\* C8: the two concurrent saveUserToken calls both succeed and return
\* distinct tokens, and the listing that follows returns both.
C8_TwoCallersDistinct ==
    /\ BothSaved =>
        /\ res[1].err = "nil" /\ res[2].err = "nil"
        /\ res[1].tok \in Tokens /\ res[2].tok \in Tokens
        /\ res[1].tok # res[2].tok
    /\ pc[3] = "done" =>
        /\ res[3].err = "nil"
        /\ {res[1].tok, res[2].tok} \subseteq ListToks(res[3].list)

\* The second caller collided on "x" and took "y"; the listing has returned.
C8_Witness ==
    /\ pc[3] = "done" /\ res[1].tok = "x" /\ res[2].tok = "y"
    /\ Len(res[3].list) = 2

(* ------------------------------------------------------------------ C9 *)
\* C9: a saveUserToken that returns an error after it created a store
\* record leaves that record deleted.
C9_FailedSaveLeavesNoRecord ==
    (/\ pc[1] = "done" /\ op[1].kind = "save"
     /\ res[1].err # "nil" /\ res[1].made # "")
        => ~store[res[1].made].live

(* ----------------------------------------------------------------- C10 *)
\* What an operation returns when its own backend calls succeed.
Normal(kind) ==
    CASE kind = "save" -> {"nil", "Gen"}
      [] kind = "load" -> {"nil", "NotFound"}
      [] kind = "list" -> {"nil"}
      [] OTHER -> {}

\* C10: saveUserToken, loadUserToken and loadUserTokenList whose own backend
\* calls succeed return their normal result whether or not the implicit
\* cleanup failed; cleanupUserToken invoked directly returns the error of
\* its first failing backend call.
C10_CleanupErrorSwallowed ==
    pc[1] = "done" =>
        /\ (op[1].kind \in {"save", "load", "list"} /\ ~res[1].perr)
            => res[1].err \in Normal(op[1].kind)
        /\ op[1].kind = "cleanup" => res[1].err = res[1].cerr

\* A saveUserToken has returned its token although the backend call of its
\* implicit cleanup failed.
C10_Witness ==
    /\ pc[1] = "done" /\ op[1].kind = "save" /\ res[1].err = "nil"
    /\ res[1].cerr = "E_ZRemRangeByScore"

(* ----------------------------------------------------------------- C11 *)
\* The views loadUserTokenList has collected once the step is taken.
OutAfter(p) == IF pc'[p] = "done" THEN res'[p].list ELSE loc'[p].out

\* C11: once the enumeration of loadUserTokenList has succeeded, every step
\* that ends the resolution of a member either appends the view of that member
\* (only when its record was read) or skips it, then goes on with the members
\* that remain, and the call returns no error after the last one.
C11_ListSkipsFailedMembers ==
    [][(/\ op[1].kind = "list"
        /\ pc[1] \in {"l_zscore", "l_heal", "l_get"}
        /\ pc'[1] \notin {"l_heal", "l_get"})
        => LET t == Head(loc[1].items)
               view == [tok |-> t, val |-> store[t].val]
           IN  /\ \/ OutAfter(1) = loc[1].out
                  \/ /\ OutAfter(1) = Append(loc[1].out, view)
                     /\ pc[1] = "l_get" /\ store[t].live
               /\ (pc[1] = "l_heal" \/ ~store[t].live) => OutAfter(1) = loc[1].out
               /\ IF Tail(loc[1].items) = <<>>
                  THEN pc'[1] = "done" /\ res'[1].err = "nil"
                  ELSE pc'[1] = "c_sweep" /\ loc'[1].items = Tail(loc[1].items)]_vars

\* A listing of two members has skipped the first and returned the second.
C11_Witness ==
    /\ pc[1] = "done" /\ op[1].kind = "list" /\ res[1].err = "nil"
    /\ Len(res[1].enum) = 2 /\ Len(res[1].list) = 1
    /\ res[1].list[1].tok = res[1].enum[2]

(* ----------------------------------------------------------------- C12 *)
\* C12: a record that saveToken created exists until its TTL has elapsed:
\* with no revoke, no step makes a record disappear before its expiry time.
C12_ExistsUntilTTL ==
    [][\A t \in Tokens :
        (isTokenExist(store, t) /\ ~isTokenExist(store', t))
            => store[t].exp <= now']_vars

(* ----------------------------------------------------------------- C13 *)
\* C13: a record appears only at the create-if-absent step of saveUserToken,
\* and disappears only by TTL expiry, by the store removal of deleteUserToken
\* or by the rollback of saveUserToken.
C13_OnlySaveCreatesOnlyRevokeRemoves ==
    [][\A t \in Tokens :
        /\ (~store[t].live /\ store'[t].live) => pc[1] = "s_setnx"
        /\ (store[t].live /\ ~store'[t].live)
            => \/ Expired(store[t], now')
               \/ pc[1] \in {"d_unlink", "s_rollback"}]_vars

(* ----------------------------------------------------------------- C14 *)
\* The step is one of p's cleanup pass.
CleanupStepOf(p) ==
    /\ pc[p] \in {"c_sweep", "c_range", "c_exist", "c_zrem"}
    /\ pc'[p] # pc[p] \/ loc'[p] # loc[p]

\* C14: whatever the interleaving of cleanup passes and saveUserToken calls,
\* a step of a cleanup pass changes the index only by removing entries of its
\* own user that are stale when it removes them: the score has passed or the
\* store record is absent.
C14_CleanupRemovesOnlyStale ==
    [][\A p \in {1, 2} : CleanupStepOf(p) =>
        \A v \in Users, t \in Tokens :
            idx'[v][t] # idx[v][t]
                => /\ v = op[p].user /\ idx'[v][t] < 0
                   /\ idx[v][t] <= Unix(now) \/ ~isTokenExist(store, t)]_vars

(* ----------------------------------------------------------------- C15 *)
\* Every candidate the generator can yield has a record in TokenStore.
AllCollide == \A t \in Tokens : isTokenExist(store, t)

\* C15: with a healthy backend and a generator that does not fail, a step of
\* the retry loop never returns an error: it stays in the loop on a collision
\* and leaves it only with a candidate that had no record, which the call
\* then returns; it cannot leave the loop while every candidate collides, and
\* leaves it at once when no candidate does.
C15_CollisionsAreRetried ==
    [][/\ pc[1] = "s_setnx" =>
            /\ pc'[1] \in {"s_setnx", "s_zadd"}
            /\ pc'[1] = "s_zadd" =>
                   /\ ~isTokenExist(store, loc'[1].tok)
                   /\ isTokenExist(store', loc'[1].tok)
            /\ AllCollide => pc'[1] = "s_setnx"
            /\ (now' = now /\ \A t \in Tokens : ~isTokenExist(store, t))
                   => pc'[1] = "s_zadd"
       /\ (pc[1] = "s_zadd" /\ now' = now) =>
            /\ pc'[1] = "done" /\ res'[1].err = "nil"
            /\ res'[1].tok = loc[1].tok]_vars

\* The retry loop is running while every candidate collides.
C15_Witness == pc[1] = "s_setnx" /\ AllCollide

(* ----------------------------------------------------------------- C16 *)
\* The entries of index z whose score is greater than now and whose store
\* record exists.
Fresh(z) ==
    [t \in Tokens |->
        IF z[t] > Unix(now) /\ isTokenExist(store, t) THEN z[t] ELSE -1]

\* C16: when a cleanupUserToken pass returns, the user's index holds exactly
\* the entries it held before whose score is greater than now and whose
\* record exists; a second pass for the same user, with no change in
\* between, leaves the index as it is.
C16_CleanupIdempotent ==
    [][/\ (op[1].kind = "cleanup" /\ pc[1] # "done" /\ pc'[1] = "done")
            => idx'[op[1].user] = Fresh(op[1].was)
       /\ (op[1].kind = "cleanup" /\ prev.kind = "cleanup" /\ prev.at = now)
            => idx' = idx]_vars

\* The second of two passes for a user has returned, with nothing changed
\* in between and an entry in the index.
C16_Witness ==
    /\ pc[1] = "done" /\ op[1].kind = "cleanup" /\ prev.kind = "cleanup"
    /\ prev.at = now
    /\ \E t \in Tokens : idx[op[1].user][t] >= 0

(* ----------------------------------------------------------------- C17 *)
\* C17: the payload a successful loadUserToken(u, t) returns is the payload
\* of the latest saveUserToken for u that returned t.
C17_PayloadOfOwnIssuance ==
    (pc[1] = "done" /\ op[1].kind = "load" /\ res[1].err = "nil")
        => /\ iss[op[1].user][op[1].tok].user = op[1].user
           /\ res[1].val = iss[op[1].user][op[1].tok].val

(* ----------------------------------------------------------------- C18 *)
\* C18: after loadUserToken(u, t) answered NotFound for a token t issued to
\* another user v, loadUserToken(v, t) run next returns v's view of t, as
\* long as the second in which t expires has not begun.
C18_OtherUsersTokenStaysUsable ==
    (/\ pc[1] = "done" /\ op[1].kind = "load"
     /\ prev.kind = "load" /\ prev.err = "NotFound"
     /\ prev.user # op[1].user /\ prev.tok = op[1].tok
     /\ iss[op[1].user][op[1].tok].user = op[1].user
     /\ Unix(res[1].at) < Unix(iss[op[1].user][op[1].tok].until))
        => /\ res[1].err = "nil"
           /\ res[1].val = iss[op[1].user][op[1].tok].val

(* ----------------------------------------------------------------- C19 *)
\* C19: with a healthy backend, cleanupUserToken invoked directly returns no
\* error.
C19_CleanupReturnsNil ==
    (pc[1] = "done" /\ op[1].kind = "cleanup") => res[1].err = "nil"

====
